---- MODULE Spec2Model ----
(***************************************************************************)
(* A model of ClickPayment (src/src/click.ts): the merchant-side handler   *)
(* of the two-phase Click callback protocol (Prepare, then Complete).      *)
(*                                                                         *)
(* One invocation of handleTransaction is an async function: it runs       *)
(* synchronously up to its first await, suspends on the promise of a       *)
(* collaborator, and resumes when that promise settles.  Each segment      *)
(* between two suspension points is one action.  The collaborators         *)
(* (checkOrder, checkPayment, onPrepare, onSuccess, onFail) are closures   *)
(* supplied by the caller: what they return is chosen by the environment.  *)
(*                                                                         *)
(* Strings are TLA+ strings; a JavaScript value whose type matters to the  *)
(* code (the action, the prepare id) is a record [type, num, str].         *)
(***************************************************************************)
EXTENDS Integers, Sequences, FiniteSets, TLC

VARIABLES
    config,       \* the ClickConfig the instance was constructed with
    pc,           \* per invocation: where the async function stands
    data,         \* per invocation: the ClickRequestDTO it was called with
    calls,        \* per invocation: the collaborator calls made, in order
    returns,      \* per invocation: what the awaited collaborators settled with
    failPromises, \* per invocation: the promises returned by onFail
    errlog,       \* per invocation: the console.error lines written
    resp          \* per invocation: the response the returned promise fulfilled with

vars == <<config, pc, data, calls, returns, failPromises, errlog, resp>>

(***************************************************************************)
(* Bounds of the inputs.                                                   *)
(***************************************************************************)
MaxTransId == 2
MaxAmount == 2
MaxAction == 2

(***************************************************************************)
(* types.ts: the enums.                                                    *)
(***************************************************************************)
Success == 0
SignFailed == -1
InvalidAmount == -2
ActionNotFound == -3
AlreadyPaid == -4
UserNotFound == -5
TransactionNotFound == -6
TransactionCanceled == -7

Prepare == 0
Complete == 1

(***************************************************************************)
(* JavaScript values.                                                      *)
(***************************************************************************)
Num(n) == [type |-> "number", num |-> n, str |-> ""]
Str(s) == [type |-> "string", num |-> 0, str |-> s]
Undefined == [type |-> "undefined", num |-> 0, str |-> ""]

\* A Number value, a double: NaN, an infinity (inf is its sign), zero of
\* either sign (negzero), or the double nearest to the decimal
\* n / 10^scale, n without trailing zero (scale = 0 for an integer).  Within
\* TLC's integers n has at most 10 digits, so the double is an integer
\* exactly when scale = 0; what exceeds TLC's integers is not evaluated.
NaN == [nan |-> TRUE, n |-> 0, scale |-> 0, inf |-> 0, negzero |-> FALSE]
Number(n) == [nan |-> FALSE, n |-> n, scale |-> 0, inf |-> 0, negzero |-> FALSE]
Infinity(sign) == [nan |-> FALSE, n |-> 0, scale |-> 0, inf |-> sign, negzero |-> FALSE]

RECURSIVE Decimal(_, _)
Decimal(n, scale) ==
    IF scale > 0 /\ n % 10 = 0
    THEN Decimal(n \div 10, scale - 1)
    ELSE [nan |-> FALSE, n |-> n, scale |-> scale, inf |-> 0, negzero |-> FALSE]

\* -x; the negation of zero is the zero of the other sign.
Negate(x) ==
    IF x.nan THEN x
    ELSE [x EXCEPT !.n = -x.n, !.inf = -x.inf,
                   !.negzero = (x.n = 0 /\ x.inf = 0 /\ ~x.negzero)]

\* x === a for a Number value and an integer a (-0 === 0).
NumberIs(x, a) == ~x.nan /\ x.inf = 0 /\ x.scale = 0 /\ x.n = a

RECURSIVE Pow(_, _)
Pow(base, k) == IF k = 0 THEN 1 ELSE base * Pow(base, k - 1)

Digits == <<"0", "1", "2", "3", "4", "5", "6", "7", "8", "9">>
IsDigit(c) == \E k \in 1..10 : Digits[k] = c
DigitValue(c) == (CHOOSE k \in 1..10 : Digits[k] = c) - 1
CharAt(s, k) == SubSeq(s, k, k)

\* The length of the longest prefix of s, from position k on, made of digits.
RECURSIVE DigitRun(_, _)
DigitRun(s, k) ==
    IF k <= Len(s) /\ IsDigit(CharAt(s, k)) THEN 1 + DigitRun(s, k + 1) ELSE 0

\* The value of the decimal digits s[from .. to].
RECURSIVE DigitsValue(_, _, _)
DigitsValue(s, from, to) ==
    IF to < from THEN 0
    ELSE 10 * DigitsValue(s, from, to - 1) + DigitValue(CharAt(s, to))

\* The digits of the radixes 2, 8 and 16, in either case.
RadixDigitsLower ==
    <<"0", "1", "2", "3", "4", "5", "6", "7", "8", "9", "a", "b", "c", "d", "e", "f">>
RadixDigitsUpper ==
    <<"0", "1", "2", "3", "4", "5", "6", "7", "8", "9", "A", "B", "C", "D", "E", "F">>
IsRadixDigit(c, radix) ==
    \E k \in 1..radix : RadixDigitsLower[k] = c \/ RadixDigitsUpper[k] = c
RadixDigitValue(c, radix) ==
    (CHOOSE k \in 1..radix : RadixDigitsLower[k] = c \/ RadixDigitsUpper[k] = c) - 1

RECURSIVE RadixRun(_, _, _)
RadixRun(s, k, radix) ==
    IF k <= Len(s) /\ IsRadixDigit(CharAt(s, k), radix)
    THEN 1 + RadixRun(s, k + 1, radix)
    ELSE 0

RECURSIVE RadixValue(_, _, _, _)
RadixValue(s, from, to, radix) ==
    IF to < from THEN 0
    ELSE radix * RadixValue(s, from, to - 1, radix) + RadixDigitValue(CharAt(s, to), radix)

\* White space and line terminators: space, tab, line feed, carriage return,
\* form feed, vertical tab (U+000B), no-break space (U+00A0), the byte order
\* mark (U+FEFF) and the Ogham space mark (U+1680).  The others (U+2000 to
\* U+200A, U+2028, U+2029, U+202F, U+205F, U+3000) cannot be written in a
\* string of this language.
WhiteSpace == {" ", "\t", "\n", "\r", "\f", "", " ", "﻿", " "}

RECURSIVE TrimStart(_)
TrimStart(s) ==
    IF Len(s) >= 1 /\ CharAt(s, 1) \in WhiteSpace
    THEN TrimStart(SubSeq(s, 2, Len(s)))
    ELSE s

RECURSIVE TrimEnd(_)
TrimEnd(s) ==
    IF Len(s) >= 1 /\ CharAt(s, Len(s)) \in WhiteSpace
    THEN TrimEnd(SubSeq(s, 1, Len(s) - 1))
    ELSE s

HasSign(s) == Len(s) >= 1 /\ CharAt(s, 1) \in {"-", "+"}
SignOf(s) == IF Len(s) >= 1 /\ CharAt(s, 1) = "-" THEN -1 ELSE 1
StripSign(s) == IF HasSign(s) THEN SubSeq(s, 2, Len(s)) ELSE s

\* The radix a prefix 0x / 0o / 0b announces; 0 when s has none.
PrefixRadix(s) ==
    IF Len(s) >= 2 /\ CharAt(s, 1) = "0"
    THEN CASE CharAt(s, 2) \in {"x", "X"} -> 16
           [] CharAt(s, 2) \in {"o", "O"} -> 8
           [] CharAt(s, 2) \in {"b", "B"} -> 2
           [] OTHER -> 0
    ELSE 0

\* parseInt(s) without a radix: leading white space is skipped, then an
\* optional sign, an optional 0x (radix 16), and the longest run of digits
\* of the radix; what follows the run is ignored; NaN when the run is empty.
ParseInt(s) ==
    LET t == TrimStart(s)
        u == StripSign(t)
        radix == IF PrefixRadix(u) = 16 THEN 16 ELSE 10
        first == IF radix = 16 THEN 3 ELSE 1
        run == RadixRun(u, first, radix)
        value == Number(RadixValue(u, first, first + run - 1, radix))
    IN  IF run = 0 THEN NaN
        ELSE IF SignOf(t) = -1 THEN Negate(value) ELSE value

RECURSIVE TrailingZeros(_)
TrailingZeros(s) ==
    IF Len(s) >= 1 /\ CharAt(s, Len(s)) = "0"
    THEN 1 + TrailingZeros(SubSeq(s, 1, Len(s) - 1))
    ELSE 0

RECURSIVE NumDigits(_)
NumDigits(m) == IF m < 10 THEN 1 ELSE 1 + NumDigits(m \div 10)

\* The first nine digits of m >= 1 (zeros appended to a shorter m).
Leading9(m) ==
    IF NumDigits(m) <= 9 THEN m * Pow(10, 9 - NumDigits(m)) ELSE m \div 10

\* m * 10^shift rounds to the double 0: it is at most 2^-1075
\* (2.4703282292...e-324), half the least positive double.
Underflows(m, shift) ==
    LET q == NumDigits(m) - 1 + shift
    IN  q < -324 \/ (q = -324 /\ Leading9(m) <= 247032822)

\* m * 10^shift rounds to Infinity: it is at least 2^1024 - 2^970
\* (1.79769313486...e308).
Overflows(m, shift) ==
    LET q == NumDigits(m) - 1 + shift
    IN  q > 308 \/ (q = 308 /\ IF NumDigits(m) = 10 THEN m >= 1797693135
                                ELSE Leading9(m) >= 179769314)

\* StrUnsignedDecimalLiteral: digits, an optional fraction, an optional
\* exponent, with a digit in the mantissa and nothing left over; the value
\* is rounded to a double.
UnsignedDecimalToNumber(r) ==
    LET int == DigitRun(r, 1)
        hasDot == int + 1 <= Len(r) /\ CharAt(r, int + 1) = "."
        frac == IF hasDot THEN DigitRun(r, int + 2) ELSE 0
        mantEnd == int + (IF hasDot THEN 1 + frac ELSE 0)
        hasExp == mantEnd + 1 <= Len(r) /\ CharAt(r, mantEnd + 1) \in {"e", "E"}
        expSigned == mantEnd + 2 <= Len(r) /\ CharAt(r, mantEnd + 2) \in {"+", "-"}
        expFirst == mantEnd + 2 + (IF expSigned THEN 1 ELSE 0)
        expRun == IF hasExp THEN DigitRun(r, expFirst) ELSE 0
        end == IF hasExp THEN expFirst + expRun - 1 ELSE mantEnd
        expSign == IF expSigned /\ CharAt(r, mantEnd + 2) = "-" THEN -1 ELSE 1
        exp == expSign * DigitsValue(r, expFirst, expFirst + expRun - 1)
        digits == SubSeq(r, 1, int) \o SubSeq(r, int + 2, int + 1 + frac)
        zeros == TrailingZeros(digits)
        mant == DigitsValue(digits, 1, Len(digits) - zeros)
        shift == exp - frac + zeros
    IN  IF int + frac = 0 \/ (hasExp /\ expRun = 0) \/ end # Len(r) THEN NaN
        ELSE IF mant = 0 \/ Underflows(mant, shift) THEN Number(0)
        ELSE IF Overflows(mant, shift) THEN Infinity(1)
        ELSE IF shift >= 0 THEN Number(mant * Pow(10, shift))
        ELSE Decimal(mant, -shift)

\* Number(s) for a string, as unary plus applies it (StringToNumber): white
\* space is trimmed at both ends; the empty string is 0; 0x / 0o / 0b
\* introduce an unsigned integer of that radix; otherwise an optionally
\* signed Infinity or decimal literal; anything else is NaN.
StringToNumber(s) ==
    LET t == TrimEnd(TrimStart(s))
        radix == PrefixRadix(t)
        u == StripSign(t)
        value == IF u = "Infinity" THEN Infinity(1) ELSE UnsignedDecimalToNumber(u)
    IN  IF t = "" THEN Number(0)
        ELSE IF radix # 0
             THEN IF Len(t) >= 3 /\ RadixRun(t, 3, radix) = Len(t) - 2
                  THEN Number(RadixValue(t, 3, Len(t), radix))
                  ELSE NaN
        ELSE IF SignOf(t) = -1 THEN Negate(value) ELSE value

\* +v
ToNumber(v) ==
    IF v.type = "number" THEN Number(v.num)
    ELSE IF v.type = "string" THEN StringToNumber(v.str)
    ELSE NaN

\* String(v) as Array.prototype.join applies it: undefined joins as "".
ToStr(v) ==
    IF v.type = "number" THEN ToString(v.num)
    ELSE IF v.type = "string" THEN v.str
    ELSE ""

\* a === b for an action value and an enum member (a number).
StrictEqualsNumber(v, n) == v.type = "number" /\ v.num = n

RECURSIVE Join(_)
Join(values) == IF values = <<>> THEN "" ELSE Head(values) \o Join(Tail(values))


(***************************************************************************)
(* The signature (click.ts 18-43).                                         *)
(***************************************************************************)

\* md5 is many-to-one: distinct strings can have one digest.  KnownCollisions
\* lists the classes of colliding strings that are tabulated here, each with
\* the hex digest its members share.
KnownCollisions ==
    { [ digest  |-> "faad49866e9498fc1719f5289e7a0269",
        strings |-> { "TEXTCOLLBYfGiJUETHQ4hAcKSMd5zYpgqf1YRDhkmxHkhPWptrkoyz28wnI9V0aHeAuaKnak",
                      "TEXTCOLLBYfGiJUETHQ4hEcKSMd5zYpgqf1YRDhkmxHkhPWptrkoyz28wnI9V0aHeAuaKnak" } ] }

\* crypto.createHash('md5').update(s).digest('hex').  The digest of a string
\* in a tabulated collision class is the digest of the class; the digest of
\* any other string is not computed and is represented by a term over the
\* string, distinct for distinct strings.  No string digested for a payload
\* of Payloads belongs to a collision class: each begins with the decimal
\* digits of click_trans_id.
MD5Hex(signString) ==
    IF \E c \in KnownCollisions : signString \in c.strings
    THEN (CHOOSE c \in KnownCollisions : signString \in c.strings).digest
    ELSE "md5(" \o signString \o ")"

generateMD5(params) == MD5Hex(Join(params))

\* Object.values(md5Params): the values in the order the keys were inserted,
\* so merchantPrepareId, assigned after the literal, comes last.
md5Params(d, includesPrepareId) ==
    << ToString(d.click_trans_id),
       d.service_id,
       config.secretKey,
       d.merchant_trans_id,
       ToString(d.amount),
       ToStr(d.action),
       d.sign_time >>
    \o (IF includesPrepareId THEN <<d.merchant_prepare_id>> ELSE <<>>)

validateSignString(d, includesPrepareId) ==
    d.sign_string = generateMD5(md5Params(d, includesPrepareId))

(***************************************************************************)
(* The inputs: the payloads handleTransaction is called with.              *)
(***************************************************************************)
TransIds == 1..MaxTransId
Amounts == 0..MaxAmount
ServiceIds == {"svc"}
OrderIds == {"O1"}
PrepareIds == {"", "P1"}
SignTimes == {"t"}
ErrorStrings == {"0", "9", "-7", "x"}
ActionValues ==
    {Num(n) : n \in 0..MaxAction}
    \cup {Str("0"), Str("1"), Str("x"), Str("1.0"), Str(" 0"), Str("1.5")}

\* The field order of the provider's protocol: the prepare id, when it is
\* signed, stands between merchant_trans_id and amount.
ProtocolSignFields(d, includesPrepareId) ==
    << ToString(d.click_trans_id),
       d.service_id,
       config.secretKey,
       d.merchant_trans_id >>
    \o (IF includesPrepareId THEN <<d.merchant_prepare_id>> ELSE <<>>)
    \o << ToString(d.amount), ToStr(d.action), d.sign_time >>

\* The signatures a payload may carry: what a sender signing either field
\* order, with or without the prepare id, would send, and a foreign digest.
SignStrings(d) ==
    { MD5Hex(Join(md5Params(d, FALSE))),
      MD5Hex(Join(md5Params(d, TRUE))),
      MD5Hex(Join(ProtocolSignFields(d, TRUE))),
      MD5Hex("tampered") }

Unsigned ==
    [ click_trans_id : TransIds,
      service_id : ServiceIds,
      merchant_trans_id : OrderIds,
      merchant_prepare_id : PrepareIds,
      amount : Amounts,
      action : ActionValues,
      error : ErrorStrings,
      sign_time : SignTimes ]

WithSignature(u, sig) ==
    [ click_trans_id |-> u.click_trans_id,
      service_id |-> u.service_id,
      merchant_trans_id |-> u.merchant_trans_id,
      merchant_prepare_id |-> u.merchant_prepare_id,
      amount |-> u.amount,
      action |-> u.action,
      error |-> u.error,
      sign_time |-> u.sign_time,
      sign_string |-> sig ]

Payloads == UNION { { WithSignature(u, sig) : sig \in SignStrings(u) } : u \in Unsigned }

NoData == WithSignature(
    [ click_trans_id |-> 0, service_id |-> "", merchant_trans_id |-> "",
      merchant_prepare_id |-> "", amount |-> 0, action |-> Undefined,
      error |-> "", sign_time |-> "" ], "")

(***************************************************************************)
(* What the collaborators may settle with.                                 *)
(***************************************************************************)
Order(exists, hasAmount, amount) ==
    [exists |-> exists, hasAmount |-> hasAmount, amount |-> amount]

Orders ==
    {Order(e, FALSE, 0) : e \in BOOLEAN}
    \cup {Order(e, TRUE, a) : e \in BOOLEAN, a \in Amounts}

\* kind: "resolve" (value is what the promise fulfilled with), "undefined"
\* (it fulfilled with undefined), "reject" (it rejected, or the collaborator
\* threw before returning a promise: inside the try block both reach catch).
\* Only a "resolve" has a value; the other kinds carry a filler of the same
\* shape, which nothing reads.
Outcome(fn, kind, value) == [fn |-> fn, kind |-> kind, value |-> value]

NoOrder == Order(FALSE, FALSE, 0)
NoPrepareResult == [prepare_id |-> Undefined]

CheckOrderOutcomes ==
    {Outcome("checkOrder", "resolve", o) : o \in Orders}
    \cup {Outcome("checkOrder", k, NoOrder) : k \in {"reject", "undefined"}}

CheckPaymentOutcomes ==
    {Outcome("checkPayment", "resolve", b) : b \in BOOLEAN}
    \cup {Outcome("checkPayment", "reject", FALSE)}

\* onPrepare resolves { prepare_id }: a string, a number, or an object that
\* lacks the key (prepare_id is then undefined).
OnPrepareOutcomes ==
    {Outcome("onPrepare", "resolve", [prepare_id |-> v]) :
        v \in {Str("P1"), Str("P2"), Num(1), Undefined}}
    \cup {Outcome("onPrepare", k, NoPrepareResult) : k \in {"reject", "undefined"}}

OnSuccessOutcomes ==
    {Outcome("onSuccess", k, FALSE) : k \in {"resolve", "reject"}}

AwaitedFn(p) ==
    CASE p = "awaitCheckOrderP" -> "checkOrder"
      [] p = "awaitCheckOrderC" -> "checkOrder"
      [] p = "awaitCheckPayment" -> "checkPayment"
      [] p = "awaitOnPrepare" -> "onPrepare"
      [] p = "awaitOnSuccess" -> "onSuccess"
      [] OTHER -> "none"

OutcomesOf(fn) ==
    CASE fn = "checkOrder" -> CheckOrderOutcomes
      [] fn = "checkPayment" -> CheckPaymentOutcomes
      [] fn = "onPrepare" -> OnPrepareOutcomes
      [] fn = "onSuccess" -> OnSuccessOutcomes
      [] OTHER -> {}

Settled(i, fn) == \E k \in DOMAIN returns[i] : returns[i][k].fn = fn

\* The result kept where every invocation of the instance finds it: an
\* invocation reads what some invocation's call of fn settled with.
ResultOf_Shared(i, fn) ==
    LET j == CHOOSE j \in DOMAIN returns :
                \E k \in DOMAIN returns[j] : returns[j][k].fn = fn
    IN  returns[j][CHOOSE k \in DOMAIN returns[j] : returns[j][k].fn = fn]

ResultOf(i, fn) == returns[i][CHOOSE k \in DOMAIN returns[i] : returns[i][k].fn = fn]


(***************************************************************************)
(* createErrorResponse (click.ts 45-63).                                   *)
(***************************************************************************)
Call(fn, arg) == [fn |-> fn, arg |-> arg]

\* click.ts 59: the spread that adds merchant_prepare_id to a Prepare error.
IsPrepareForFormatter(d) == StrictEqualsNumber(d.action, Prepare)

\* click.ts 56-62: the object returned.
ErrorResponse(error, errorNote, d) ==
    IF IsPrepareForFormatter(d)
    THEN [ click_trans_id |-> d.click_trans_id,
           merchant_trans_id |-> d.merchant_trans_id,
           merchant_prepare_id |-> Str(""),
           error |-> error,
           error_note |-> errorNote ]
    ELSE [ click_trans_id |-> d.click_trans_id,
           merchant_trans_id |-> d.merchant_trans_id,
           error |-> error,
           error_note |-> errorNote ]

\* click.ts 48-53: the argument onFail is called with.
OnFailCall(error, errorNote, d) ==
    Call("onFail", [ click_trans_id |-> d.click_trans_id,
                     merchant_trans_id |-> d.merchant_trans_id,
                     error |-> error,
                     error_note |-> errorNote ])

\* click.ts 47: is onFail called at all.
OnFailConfigured == config.onFail # "absent"

\* One evaluation of createErrorResponse.  config.onFail is "absent" (no
\* handler), "promise" (the handler returns a promise, to which .catch is
\* attached and which is not awaited) or "throws" (the handler throws before
\* returning a promise, or returns no promise so that .catch throws: the
\* exception leaves createErrorResponse before anything is returned).
createErrorResponse(error, errorNote, d) ==
    [ calls |-> IF OnFailConfigured THEN <<OnFailCall(error, errorNote, d)>> ELSE <<>>,
      promises |-> IF config.onFail = "promise" THEN <<"pending">> ELSE <<>>,
      threw |-> config.onFail = "throws",
      value |-> ErrorResponse(error, errorNote, d) ]

(***************************************************************************)
(* What one segment of an async function does to the invocation: where it  *)
(* stops, the collaborator calls it made, the onFail promises it created,  *)
(* the lines it logged and the response it returned, if it returned.       *)
(***************************************************************************)
Effect(p, c, f, l, r) == [pc |-> p, calls |-> c, promises |-> f, errs |-> l, resp |-> r]

\* The catch block of prepare / complete (click.ts 122-129, 176-183), and
\* what follows it: the error response, or the exception of
\* createErrorResponse leaving the async function (its promise rejects).
Catch(before, logLine, catchNote, d) ==
    LET r == createErrorResponse(UserNotFound, catchNote, d)
    IN  IF r.threw
        THEN Effect("rejected", before \o r.calls, <<>>, <<logLine>>, <<>>)
        ELSE Effect("done", before \o r.calls, r.promises, <<logLine>>, <<r.value>>)

\* `return this.createErrorResponse(...)` inside the try block: an exception
\* of createErrorResponse is caught by the catch block of the same function.
ReturnError(error, errorNote, logLine, catchNote, d) ==
    LET r == createErrorResponse(error, errorNote, d)
    IN  IF r.threw
        THEN Catch(r.calls, logLine, catchNote, d)
        ELSE Effect("done", r.calls, r.promises, <<>>, <<r.value>>)

\* `await collaborator(arg)`: the call is made and the function suspends.
Await(p, fn, arg) == Effect(p, <<Call(fn, arg)>>, <<>>, <<>>, <<>>)

Return(response) == Effect("done", <<>>, <<>>, <<>>, <<response>>)

Apply(i, e) ==
    /\ pc' = [pc EXCEPT ![i] = e.pc]
    /\ calls' = [calls EXCEPT ![i] = @ \o e.calls]
    /\ failPromises' = [failPromises EXCEPT ![i] = @ \o e.promises]
    /\ errlog' = [errlog EXCEPT ![i] = @ \o e.errs]
    /\ resp' = [resp EXCEPT ![i] = @ \o e.resp]

PrepareLog == "Click prepare error:"
PrepareCatchNote == "Internal prepare error"
CompleteLog == "Click complete error:"
CompleteCatchNote == "Internal complete error"

(***************************************************************************)
(* prepare (click.ts 65-130).                                              *)
(***************************************************************************)
\* click.ts 78 and 145
OrderMissing(order) == ~order.exists

\* click.ts 87: `order.amount && order.amount !== data.amount`; an absent
\* amount and the amount 0 are both falsy.
AmountMismatch(order, d) ==
    /\ order.hasAmount /\ order.amount # 0
    /\ order.amount # d.amount

\* click.ts 96
CheckPaymentConfigured == config.checkPayment

\* click.ts 98: if (isPaid)
PaymentFound(isPaid) == isPaid = TRUE

OnPrepareCall(d) ==
    Await("awaitOnPrepare", "onPrepare",
          [ click_trans_id |-> d.click_trans_id,
            merchant_trans_id |-> d.merchant_trans_id,
            amount |-> d.amount ])

\* The success response echoing the payload's prepare id instead of the one
\* onPrepare returned.
PrepareSuccess_EchoPayload(d, prepare_id) ==
    [ click_trans_id |-> d.click_trans_id,
      merchant_trans_id |-> d.merchant_trans_id,
      merchant_prepare_id |-> Str(d.merchant_prepare_id),
      error |-> Success,
      error_note |-> "Success" ]

\* click.ts 115-121
PrepareSuccess(d, prepare_id) ==
    [ click_trans_id |-> d.click_trans_id,
      merchant_trans_id |-> d.merchant_trans_id,
      merchant_prepare_id |-> prepare_id,
      error |-> Success,
      error_note |-> "Success" ]

\* click.ts 66-77: up to the first await.
prepare(d) ==
    IF ~validateSignString(d, FALSE)
    THEN ReturnError(SignFailed, "Invalid sign_string", PrepareLog, PrepareCatchNote, d)
    ELSE Await("awaitCheckOrderP", "checkOrder", d.merchant_trans_id)

\* click.ts 77-112: what prepare does with the settlement `got` of checkOrder.
prepareAfterOrder(d, got) ==
    IF got.kind # "resolve"
    THEN Catch(<<>>, PrepareLog, PrepareCatchNote, d)
    ELSE IF OrderMissing(got.value)
    THEN ReturnError(UserNotFound, "Order not found", PrepareLog, PrepareCatchNote, d)
    ELSE IF AmountMismatch(got.value, d)
    THEN ReturnError(InvalidAmount, "Invalid amount", PrepareLog, PrepareCatchNote, d)
    ELSE IF CheckPaymentConfigured
    THEN Await("awaitCheckPayment", "checkPayment", d.merchant_trans_id)
    ELSE OnPrepareCall(d)

\* click.ts 77-112: from the settlement of checkOrder to the next await.
prepareOrderChecked(i) ==
    /\ pc[i] = "awaitCheckOrderP"
    /\ Settled(i, "checkOrder")
    /\ Apply(i, prepareAfterOrder(data[i], ResultOf(i, "checkOrder")))
    /\ UNCHANGED <<config, data, returns>>

\* click.ts 97-112: what prepare does with the settlement of checkPayment;
\* whatever the promise fulfils with is tested by `if (isPaid)`.
prepareAfterPayment(d, got) ==
    IF got.kind = "reject"
    THEN Catch(<<>>, PrepareLog, PrepareCatchNote, d)
    ELSE IF PaymentFound(got.value)
    THEN ReturnError(AlreadyPaid, "Already paid", PrepareLog, PrepareCatchNote, d)
    ELSE OnPrepareCall(d)

\* click.ts 97-112: from the settlement of checkPayment to the next await.
preparePaymentChecked(i) ==
    /\ pc[i] = "awaitCheckPayment"
    /\ Settled(i, "checkPayment")
    /\ Apply(i, prepareAfterPayment(data[i], ResultOf(i, "checkPayment")))
    /\ UNCHANGED <<config, data, returns>>

\* click.ts 108-121: what prepare does with the settlement of onPrepare.
prepareAfterSave(d, got) ==
    IF got.kind # "resolve"
    THEN Catch(<<>>, PrepareLog, PrepareCatchNote, d)
    ELSE Return(PrepareSuccess(d, got.value.prepare_id))

\* click.ts 108-121: from the settlement of onPrepare to the return.
prepareSaved(i) ==
    /\ pc[i] = "awaitOnPrepare"
    /\ Settled(i, "onPrepare")
    /\ Apply(i, prepareAfterSave(data[i], ResultOf(i, "onPrepare")))
    /\ UNCHANGED <<config, data, returns>>

(***************************************************************************)
(* complete (click.ts 132-184).                                            *)
(***************************************************************************)
\* Any non-zero provider error, negative ones included, taken as an error.
ClickErrorPresent_NonZero(d) == ~ParseInt(d.error).nan /\ ParseInt(d.error).n # 0

\* click.ts 154: parseInt(data.error) > 0
ClickErrorPresent(d) == ~ParseInt(d.error).nan /\ ParseInt(d.error).n > 0

\* click.ts 170-175
CompleteSuccess(d) ==
    [ click_trans_id |-> d.click_trans_id,
      merchant_trans_id |-> d.merchant_trans_id,
      error |-> Success,
      error_note |-> "Success" ]

\* click.ts 133-144: up to the first await.
complete(d) ==
    IF ~validateSignString(d, TRUE)
    THEN ReturnError(SignFailed, "Invalid sign_string", CompleteLog, CompleteCatchNote, d)
    ELSE Await("awaitCheckOrderC", "checkOrder", d.merchant_trans_id)

\* click.ts 163-167
OnSuccessCall(d) ==
    Await("awaitOnSuccess", "onSuccess",
          [ click_trans_id |-> d.click_trans_id,
            merchant_trans_id |-> d.merchant_trans_id,
            merchant_prepare_id |-> d.merchant_prepare_id ])

\* A duplicate check: a payload for which some invocation has already
\* called onSuccess is answered Success without calling it again.
completeAfterOrder_OncePerPayload(d, got) ==
    IF got.kind # "resolve"
    THEN Catch(<<>>, CompleteLog, CompleteCatchNote, d)
    ELSE IF OrderMissing(got.value)
    THEN ReturnError(UserNotFound, "Order not found", CompleteLog, CompleteCatchNote, d)
    ELSE IF ClickErrorPresent(d)
    THEN ReturnError(ParseInt(d.error).n, "Click error", CompleteLog, CompleteCatchNote, d)
    ELSE IF \E j \in DOMAIN calls : \E k \in DOMAIN calls[j] :
               calls[j][k].fn = "onSuccess" /\ data[j] = d
    THEN Return(CompleteSuccess(d))
    ELSE OnSuccessCall(d)

\* click.ts 144-167: what complete does with the settlement of checkOrder.
completeAfterOrder(d, got) ==
    IF got.kind # "resolve"
    THEN Catch(<<>>, CompleteLog, CompleteCatchNote, d)
    ELSE IF OrderMissing(got.value)
    THEN ReturnError(UserNotFound, "Order not found", CompleteLog, CompleteCatchNote, d)
    ELSE IF ClickErrorPresent(d)
    THEN ReturnError(ParseInt(d.error).n, "Click error", CompleteLog, CompleteCatchNote, d)
    ELSE OnSuccessCall(d)

\* click.ts 144-167: from the settlement of checkOrder to the next await.
completeOrderChecked(i) ==
    /\ pc[i] = "awaitCheckOrderC"
    /\ Settled(i, "checkOrder")
    /\ Apply(i, completeAfterOrder(data[i], ResultOf(i, "checkOrder")))
    /\ UNCHANGED <<config, data, returns>>

\* click.ts 163-175: what complete does with the settlement of onSuccess.
completeAfterSuccess(d, got) ==
    IF got.kind = "reject"
    THEN Catch(<<>>, CompleteLog, CompleteCatchNote, d)
    ELSE Return(CompleteSuccess(d))

\* click.ts 163-175: from the settlement of onSuccess to the return.
completeSucceeded(i) ==
    /\ pc[i] = "awaitOnSuccess"
    /\ Settled(i, "onSuccess")
    /\ Apply(i, completeAfterSuccess(data[i], ResultOf(i, "onSuccess")))
    /\ UNCHANGED <<config, data, returns>>

(***************************************************************************)
(* handleTransaction (click.ts 186-201).                                   *)
(***************************************************************************)
\* click.ts 187: const actionType = +data.action
ActionType(d) == ToNumber(d.action)

IsAction(d, a) == NumberIs(ActionType(d), a)

\* The default branch answering TransactionNotFound (-6).
invalidAction_TransactionNotFound(d) ==
    LET r == createErrorResponse(TransactionNotFound, "Invalid action", d)
    IN  IF r.threw
        THEN Effect("rejected", r.calls, <<>>, <<>>, <<>>)
        ELSE Effect("done", r.calls, r.promises, <<>>, <<r.value>>)

\* click.ts 195-199: the default branch; an exception of createErrorResponse
\* rejects the promise handleTransaction returned.
invalidAction(d) ==
    LET r == createErrorResponse(ActionNotFound, "Invalid action", d)
    IN  IF r.threw
        THEN Effect("rejected", r.calls, <<>>, <<>>, <<>>)
        ELSE Effect("done", r.calls, r.promises, <<>>, <<r.value>>)

dispatch(d) ==
    IF IsAction(d, Prepare) THEN prepare(d)
    ELSE IF IsAction(d, Complete) THEN complete(d)
    ELSE invalidAction(d)

\* A call of handleTransaction with one of the payloads `inputs`.
handleTransactionOf(i, inputs) ==
    /\ pc[i] = "idle"
    /\ \E d \in inputs :
          /\ data' = [data EXCEPT ![i] = d]
          /\ Apply(i, dispatch(d))
    /\ UNCHANGED <<config, returns>>

handleTransaction(i) == handleTransactionOf(i, Payloads)

(***************************************************************************)
(* The environment: the collaborators' promises settle.                    *)
(***************************************************************************)
\* The promise the invocation awaits settles.
Settle(i) ==
    /\ AwaitedFn(pc[i]) # "none"
    /\ ~Settled(i, AwaitedFn(pc[i]))
    /\ \E o \in OutcomesOf(AwaitedFn(pc[i])) :
          returns' = [returns EXCEPT ![i] = Append(@, o)]
    /\ UNCHANGED <<config, pc, data, calls, failPromises, errlog, resp>>

\* A promise returned by onFail settles.  A rejection queues the reaction
\* of click.ts 53; it has not run yet.
SettleOnFail(i) ==
    \E k \in DOMAIN failPromises[i] :
       /\ failPromises[i][k] = "pending"
       /\ \E outcome \in {"resolved", "rejected"} :
             failPromises' = [failPromises EXCEPT ![i][k] = outcome]
       /\ UNCHANGED <<config, pc, data, calls, returns, errlog, resp>>

RejectedOnFail(i) ==
    Cardinality({k \in DOMAIN failPromises[i] : failPromises[i][k] = "rejected"})
ReportedOnFail(i) ==
    Cardinality({k \in DOMAIN errlog[i] : errlog[i][k] = "onFail rejected"})

\* click.ts 53: .catch(console.error), the reaction to a rejected promise of
\* onFail; it runs as a job of its own, after the rejection, and segments
\* of other invocations queued before it run in between.
onFailCatch(i) ==
    /\ ReportedOnFail(i) < RejectedOnFail(i)
    /\ errlog' = [errlog EXCEPT ![i] = Append(@, "onFail rejected")]
    /\ UNCHANGED <<config, pc, data, calls, returns, failPromises, resp>>

(***************************************************************************)
(* The specification: one ClickPayment instance, one invocation.           *)
(***************************************************************************)
SecretKey == "key"

Configs ==
    [ secretKey : {SecretKey},
      checkPayment : BOOLEAN,
      onFail : {"absent", "promise", "throws"} ]

Invocations == {1}

Init ==
    /\ config \in Configs
    /\ pc = [i \in Invocations |-> "idle"]
    /\ data = [i \in Invocations |-> NoData]
    /\ calls = [i \in Invocations |-> <<>>]
    /\ returns = [i \in Invocations |-> <<>>]
    /\ failPromises = [i \in Invocations |-> <<>>]
    /\ errlog = [i \in Invocations |-> <<>>]
    /\ resp = [i \in Invocations |-> <<>>]

Next ==
    \/ \E i \in DOMAIN pc : handleTransaction(i)
    \/ \E i \in DOMAIN pc : prepareOrderChecked(i)
    \/ \E i \in DOMAIN pc : preparePaymentChecked(i)
    \/ \E i \in DOMAIN pc : prepareSaved(i)
    \/ \E i \in DOMAIN pc : completeOrderChecked(i)
    \/ \E i \in DOMAIN pc : completeSucceeded(i)
    \/ \E i \in DOMAIN pc : Settle(i)
    \/ \E i \in DOMAIN pc : SettleOnFail(i)
    \/ \E i \in DOMAIN pc : onFailCatch(i)

Spec == Init /\ [][Next]_vars

(***************************************************************************)
(* Two invocations of handleTransaction on the same instance, in flight    *)
(* together: the segments of the two async functions interleave in any     *)
(* order.  The payloads are a part of Payloads: a Prepare, a Complete with *)
(* and without a provider error, and an unknown action, each with its      *)
(* valid signature or a foreign one.                                       *)
(***************************************************************************)
ConcurrentUnsigned ==
    { u \in [ click_trans_id : {1},
              service_id : ServiceIds,
              merchant_trans_id : OrderIds,
              merchant_prepare_id : {"P1"},
              amount : {1},
              action : {Num(n) : n \in 0..MaxAction},
              error : {"0", "9"},
              sign_time : SignTimes ] :
        u.error = "9" => u.action = Num(Complete) }

ConcurrentPayloads ==
    UNION { { WithSignature(u, sig) :
                sig \in { generateMD5(md5Params(u, u.action = Num(Complete))),
                          MD5Hex("tampered") } } :
            u \in ConcurrentUnsigned }

ConcurrentInvocations == {1, 2}

InitConcurrent ==
    /\ config \in Configs
    /\ pc = [i \in ConcurrentInvocations |-> "idle"]
    /\ data = [i \in ConcurrentInvocations |-> NoData]
    /\ calls = [i \in ConcurrentInvocations |-> <<>>]
    /\ returns = [i \in ConcurrentInvocations |-> <<>>]
    /\ failPromises = [i \in ConcurrentInvocations |-> <<>>]
    /\ errlog = [i \in ConcurrentInvocations |-> <<>>]
    /\ resp = [i \in ConcurrentInvocations |-> <<>>]

NextConcurrent ==
    \/ \E i \in DOMAIN pc : handleTransactionOf(i, ConcurrentPayloads)
    \/ \E i \in DOMAIN pc : prepareOrderChecked(i)
    \/ \E i \in DOMAIN pc : preparePaymentChecked(i)
    \/ \E i \in DOMAIN pc : prepareSaved(i)
    \/ \E i \in DOMAIN pc : completeOrderChecked(i)
    \/ \E i \in DOMAIN pc : completeSucceeded(i)
    \/ \E i \in DOMAIN pc : Settle(i)
    \/ \E i \in DOMAIN pc : SettleOnFail(i)
    \/ \E i \in DOMAIN pc : onFailCatch(i)

SpecConcurrent == InitConcurrent /\ [][NextConcurrent]_vars


(***************************************************************************)
(* Vocabulary of the properties.                                           *)
(***************************************************************************)
Started(i) == pc[i] # "idle"
Returned(i) == pc[i] = "done"
Rejected(i) == pc[i] = "rejected"
Finished(i) == Returned(i) \/ Rejected(i)
Response(i) == resp[i][1]

Called(i, fn) == \E k \in DOMAIN calls[i] : calls[i][k].fn = fn
CallOf(i, fn) == calls[i][CHOOSE k \in DOMAIN calls[i] : calls[i][k].fn = fn]
CallCount(i, fn) == Cardinality({k \in DOMAIN calls[i] : calls[i][k].fn = fn})

\* The collaborators whose result the pipeline awaits.
Awaited == {"checkOrder", "checkPayment", "onPrepare", "onSuccess"}
NoAwaitedCall(i) == \A k \in DOMAIN calls[i] : calls[i][k].fn \notin Awaited

\* The continuation that follows the settlement of fn has run.
Resumed(i, fn) == Settled(i, fn) /\ AwaitedFn(pc[i]) # fn
Resolved(i, fn) == Settled(i, fn) /\ ResultOf(i, fn).kind = "resolve"

IsPrepare(i) == Started(i) /\ IsAction(data[i], Prepare)
IsComplete(i) == Started(i) /\ IsAction(data[i], Complete)
IsUnknownAction(i) == Started(i) /\ ~IsAction(data[i], Prepare) /\ ~IsAction(data[i], Complete)

\* The payload's signature is the digest the handler computes for it.
DigestMatches(d) ==
    d.sign_string = generateMD5(md5Params(d, IsAction(d, Complete)))

\* The integer the payload's error field parses to is greater than 0.
ProviderErrorPositive(d) == ~ParseInt(d.error).nan /\ ParseInt(d.error).n > 0

(***************************************************************************)
(* C1  Signature mismatch.                                                 *)
(***************************************************************************)
\* C1: for a Prepare or Complete payload whose signature does not match the
\* computed digest, handleTransaction returns a response whose error is
\* SignFailed (-1), and no collaborator at all, onFail included, is
\* invoked.
C1_SignFailedNoCollaborator ==
    \A i \in DOMAIN pc :
       (IsPrepare(i) \/ IsComplete(i)) /\ ~DigestMatches(data[i])
       => /\ Returned(i)
          /\ Response(i).error = SignFailed
          /\ calls[i] = <<>>

(***************************************************************************)
(* C2  Unknown action.                                                     *)
(***************************************************************************)
\* C2: for an action whose value is outside {Prepare, Complete},
\* handleTransaction returns a response whose error is ActionNotFound (-3),
\* whether or not the signature matches, and no collaborator at all, onFail
\* included, is invoked.
C2_ActionNotFoundNoCollaborator ==
    \A i \in DOMAIN pc :
       IsUnknownAction(i)
       => /\ Returned(i)
          /\ Response(i).error = ActionNotFound
          /\ calls[i] = <<>>

(***************************************************************************)
(* C3  Provider error passed through by Complete.                          *)
(***************************************************************************)
\* C3: for every Complete request whose providerError is greater than 0,
\* onSuccess is never called and the request, once it has ended, has
\* returned a response whose error is that value.
C3_ProviderErrorReturned ==
    \A i \in DOMAIN pc :
       IsComplete(i) /\ ProviderErrorPositive(data[i])
       => /\ ~Called(i, "onSuccess")
          /\ Finished(i)
             => /\ Returned(i)
                /\ Response(i).error = ParseInt(data[i].error).n

(***************************************************************************)
(* C4  Amount mismatch in Prepare.                                         *)
(***************************************************************************)
\* C4: for every Prepare request with a valid signature where checkOrder
\* resolved with exists = true and an amount (any number, 0 included) that
\* differs from the payload's amount, the response is InvalidAmount (-2) and
\* onPrepare is not called.
C4_InvalidAmountForAnyDefinedAmount ==
    \A i \in DOMAIN pc :
       (/\ IsPrepare(i) /\ DigestMatches(data[i])
        /\ Resumed(i, "checkOrder") /\ Resolved(i, "checkOrder")
        /\ ResultOf(i, "checkOrder").value.exists
        /\ ResultOf(i, "checkOrder").value.hasAmount
        /\ ResultOf(i, "checkOrder").value.amount # data[i].amount)
       => /\ ~Called(i, "onPrepare")
          /\ Returned(i) => Response(i).error = InvalidAmount

(***************************************************************************)
(* C5  Order not found in Prepare.                                         *)
(***************************************************************************)
\* C5: for every Prepare request where checkOrder resolved with
\* exists = false, onPrepare is never called and, once the segment that
\* follows the lookup has run, the response returned is UserNotFound (-5,
\* the spec's RecordNotFound).
C5_OrderNotFound ==
    \A i \in DOMAIN pc :
       (/\ IsPrepare(i) /\ Resolved(i, "checkOrder")
        /\ ~ResultOf(i, "checkOrder").value.exists)
       => /\ ~Called(i, "onPrepare")
          /\ Resumed(i, "checkOrder")
             => /\ Returned(i)
                /\ Response(i).error = UserNotFound

(***************************************************************************)
(* C6  Already paid.                                                       *)
(***************************************************************************)
\* C6: for every Prepare request where checkPayment is configured and
\* resolved true, onPrepare is never called and, once the segment that
\* follows has run, the response returned is AlreadyPaid (-4).
C6_AlreadyPaid ==
    \A i \in DOMAIN pc :
       (/\ IsPrepare(i) /\ config.checkPayment
        /\ Resolved(i, "checkPayment")
        /\ ResultOf(i, "checkPayment").value = TRUE)
       => /\ ~Called(i, "onPrepare")
          /\ Resumed(i, "checkPayment")
             => /\ Returned(i)
                /\ Response(i).error = AlreadyPaid

(***************************************************************************)
(* C7  Collaborator faults.                                                *)
(***************************************************************************)
\* An awaited collaborator failed: its promise rejected (or it threw), or it
\* fulfilled with a malformed result (undefined, or for onPrepare an object
\* without prepare_id).
Faulted(i, fn) ==
    /\ Settled(i, fn)
    /\ \/ ResultOf(i, fn).kind \in {"reject", "undefined"}
       \/ /\ fn = "onPrepare"
          /\ ResultOf(i, fn).kind = "resolve"
          /\ ResultOf(i, fn).value.prepare_id = Undefined

\* The position of the call of fn in the invocation's calls.
CallIndex(i, fn) == CHOOSE k \in DOMAIN calls[i] : calls[i][k].fn = fn

\* C7: handleTransaction never propagates a fault: whenever checkOrder,
\* checkPayment, onPrepare or onSuccess throws, rejects or returns a
\* malformed result, the invocation completes with a response whose error is
\* UserNotFound (-5), and no later step of the pipeline is executed.
C7_FaultBecomesRecordNotFound ==
    \A i \in DOMAIN pc : \A fn \in Awaited :
       Faulted(i, fn) /\ Resumed(i, fn)
       => /\ Returned(i)
          /\ Response(i).error = UserNotFound
          /\ \A k \in DOMAIN calls[i] :
                k > CallIndex(i, fn) => calls[i][k].fn \notin Awaited

(***************************************************************************)
(* C8  onFail is fire-and-forget.                                          *)
(***************************************************************************)
\* C8: on every error path with onFail configured, onFail is dispatched with
\* the transaction id, order id, error and note of the response returned,
\* the response is returned without waiting for onFail, and an onFail that
\* resolves, rejects, throws or never settles neither changes the response
\* nor makes handleTransaction fail.
C8_OnFailNeverAffectsResponse ==
    \A i \in DOMAIN pc :
       Called(i, "onFail")
       => /\ Returned(i)
          /\ \A k \in DOMAIN calls[i] :
                calls[i][k].fn = "onFail"
                => /\ calls[i][k].arg.click_trans_id = Response(i).click_trans_id
                   /\ calls[i][k].arg.merchant_trans_id = Response(i).merchant_trans_id
                   /\ calls[i][k].arg.error = Response(i).error
                   /\ calls[i][k].arg.error_note = Response(i).error_note

(***************************************************************************)
(* C9  The field order of the signature.                                   *)
(***************************************************************************)
\* C9: the signature is verified (the pipeline goes on to checkOrder) iff it
\* is the digest of transactionId, serviceId, secretKey, merchantOrderId,
\* then the prepare id (Complete only), then amount, action, signTimestamp.
C9_DigestInProtocolOrder ==
    \A i \in DOMAIN pc :
       IsPrepare(i) \/ IsComplete(i)
       => (Called(i, "checkOrder")
           <=> data[i].sign_string =
                 MD5Hex(Join(ProtocolSignFields(data[i], IsAction(data[i], Complete)))))

(***************************************************************************)
(* C10  Prepare succeeds.                                                  *)
(***************************************************************************)
\* Every check of Prepare has passed: the signature matched, checkOrder
\* resolved an existing order whose amount is absent or equal to the
\* payload's, and checkPayment is not configured or resolved false.
PassedPrepareChecks(i) ==
    /\ IsPrepare(i) /\ DigestMatches(data[i])
    /\ Resumed(i, "checkOrder") /\ Resolved(i, "checkOrder")
    /\ LET order == ResultOf(i, "checkOrder").value
       IN  order.exists /\ (order.hasAmount => order.amount = data[i].amount)
    /\ config.checkPayment
       => /\ Resumed(i, "checkPayment") /\ Resolved(i, "checkPayment")
          /\ ResultOf(i, "checkPayment").value = FALSE

\* C10: for every Prepare request that passes all checks, onPrepare is
\* invoked once with the payload's click_trans_id, merchant_trans_id and
\* amount; and once onPrepare has resolved with a prepare id the response
\* echoes the payload's two ids, carries the prepare id onPrepare returned,
\* error Success (0) and note 'Success'.
C10_PrepareSuccess ==
    \A i \in DOMAIN pc :
       PassedPrepareChecks(i)
       => /\ CallCount(i, "onPrepare") = 1
          /\ CallOf(i, "onPrepare").arg =
                [ click_trans_id |-> data[i].click_trans_id,
                  merchant_trans_id |-> data[i].merchant_trans_id,
                  amount |-> data[i].amount ]
          /\ (Resumed(i, "onPrepare") /\ Resolved(i, "onPrepare"))
             => /\ Returned(i)
                /\ Response(i) =
                      [ click_trans_id |-> data[i].click_trans_id,
                        merchant_trans_id |-> data[i].merchant_trans_id,
                        merchant_prepare_id |-> ResultOf(i, "onPrepare").value.prepare_id,
                        error |-> Success,
                        error_note |-> "Success" ]

C10_Witness ==
    \E i \in DOMAIN pc :
       /\ PassedPrepareChecks(i)
       /\ config.checkPayment
       /\ ResultOf(i, "checkOrder").value.hasAmount
       /\ data[i].amount > 0
       /\ Resolved(i, "onPrepare")
       /\ ResultOf(i, "onPrepare").value.prepare_id = Str("P2")
       /\ Returned(i)
       /\ Response(i).merchant_prepare_id = Str("P2")
       /\ Response(i).error = Success


(***************************************************************************)
(* C11  The shape of error responses.                                      *)
(***************************************************************************)
ErrorReturned(i) == Returned(i) /\ Response(i).error # Success
HasPrepareId(r) == "merchant_prepare_id" \in DOMAIN r

\* C11: every error response of a request dispatched to prepare, whatever
\* the encoding of its action, carries merchant_prepare_id = '', and every
\* error response of a Complete request or of an unknown action carries no
\* merchant_prepare_id.
C11_ErrorShapeFollowsDispatch ==
    \A i \in DOMAIN pc :
       ErrorReturned(i)
       => IF IsPrepare(i)
          THEN HasPrepareId(Response(i)) /\ Response(i).merchant_prepare_id = Str("")
          ELSE ~HasPrepareId(Response(i))

(***************************************************************************)
(* C12  Order not found in Complete.                                       *)
(***************************************************************************)
\* C12: for every Complete request with a valid signature where checkOrder
\* resolved with exists = false, onSuccess is not called and, once the
\* segment that follows the lookup has run, the response returned is
\* UserNotFound (-5), whatever the payload's error field holds.
C12_CompleteOrderNotFound ==
    \A i \in DOMAIN pc :
       (/\ IsComplete(i) /\ DigestMatches(data[i])
        /\ Resolved(i, "checkOrder")
        /\ ~ResultOf(i, "checkOrder").value.exists)
       => /\ ~Called(i, "onSuccess")
          /\ Resumed(i, "checkOrder")
             => /\ Returned(i)
                /\ Response(i).error = UserNotFound

(***************************************************************************)
(* C13  No collaborator is called twice.                                   *)
(***************************************************************************)
Collaborators == Awaited \cup {"onFail"}

\* C13: within one invocation every collaborator, onFail included, is
\* invoked at most once, on every path.
C13_EachCollaboratorAtMostOnce ==
    \A i \in DOMAIN pc : \A fn \in Collaborators : CallCount(i, fn) <= 1


(***************************************************************************)
(* C14  The order of the collaborator calls.                               *)
(***************************************************************************)
\* checkOrder resolved an existing order.
OrderFound(i) == Resolved(i, "checkOrder") /\ ResultOf(i, "checkOrder").value.exists

\* The order's amount, when checkOrder returned one, is the payload's.
AmountAgrees(i) ==
    LET order == ResultOf(i, "checkOrder").value
    IN  order.hasAmount => order.amount = data[i].amount

\* An awaited call is pending only as the last call made, with the
\* invocation suspended on it.
NoStepWhilePending(i) ==
    \A k \in DOMAIN calls[i] :
       (calls[i][k].fn \in Awaited /\ ~Settled(i, calls[i][k].fn))
       => k = Len(calls[i]) /\ AwaitedFn(pc[i]) = calls[i][k].fn

\* C14: checkOrder is invoked only after the signature verified;
\* checkPayment only after checkOrder returned exists = true and the amount
\* check passed; onPrepare only after checkPayment, if configured, returned
\* false; onSuccess (Complete) only after checkOrder returned exists = true;
\* and no step starts while an earlier collaborator call is pending.
C14_CallsGatedByResults ==
    \A i \in DOMAIN pc :
       /\ Called(i, "checkOrder") => DigestMatches(data[i])
       /\ Called(i, "checkPayment")
          => IsPrepare(i) /\ OrderFound(i) /\ AmountAgrees(i)
       /\ Called(i, "onPrepare")
          => /\ IsPrepare(i) /\ OrderFound(i)
             /\ config.checkPayment
                => Resolved(i, "checkPayment") /\ ResultOf(i, "checkPayment").value = FALSE
       /\ Called(i, "onSuccess") => IsComplete(i) /\ OrderFound(i)
       /\ NoStepWhilePending(i)

(***************************************************************************)
(* C15  Concurrent invocations are independent.                            *)
(***************************************************************************)
\* All that invocation i holds.
InvocationState(i) ==
    <<pc[i], data[i], calls[i], returns[i], failPromises[i], errlog[i], resp[i]>>

\* The settlement invocation i received from its own call of fn.
OwnResult(i, fn) ==
    returns[i][CHOOSE k \in DOMAIN returns[i] : returns[i][k].fn = fn]
OwnResolved(i, fn) == Settled(i, fn) /\ OwnResult(i, fn).kind = "resolve"

\* No continuation of invocation i is waiting to run.
Quiet(i) == AwaitedFn(pc[i]) = "none" \/ ~Settled(i, AwaitedFn(pc[i]))

\* A step writes the state of one invocation at most, and never the
\* configuration, the only state the invocations share.
OneInvocationPerStep ==
    /\ config' = config
    /\ \A i, j \in DOMAIN pc :
          (i # j /\ InvocationState(i)' # InvocationState(i))
          => InvocationState(j)' = InvocationState(j)

\* Two invocations with the same payload that received the same results
\* are at the same position, made the same calls and gave the same answer,
\* however their segments were interleaved.
SameInputsSameOutcome ==
    \A i, j \in DOMAIN pc :
       (/\ Started(i) /\ Started(j)
        /\ Quiet(i) /\ Quiet(j)
        /\ data[i] = data[j] /\ returns[i] = returns[j])
       => pc[i] = pc[j] /\ calls[i] = calls[j] /\ resp[i] = resp[j]

\* The calls and the response of an invocation follow from its own payload
\* and from the results of its own collaborator calls.
OwnInputsOnly ==
    \A i \in DOMAIN pc :
       /\ \A k \in DOMAIN calls[i] :
             IF calls[i][k].fn \in {"checkOrder", "checkPayment"}
             THEN calls[i][k].arg = data[i].merchant_trans_id
             ELSE /\ calls[i][k].arg.click_trans_id = data[i].click_trans_id
                  /\ calls[i][k].arg.merchant_trans_id = data[i].merchant_trans_id
       /\ \A fn \in {"checkPayment", "onPrepare", "onSuccess"} :
             Called(i, fn)
             => OwnResolved(i, "checkOrder") /\ OwnResult(i, "checkOrder").value.exists
       /\ Returned(i)
          => LET r == resp[i][1]
             IN  /\ r.click_trans_id = data[i].click_trans_id
                 /\ r.merchant_trans_id = data[i].merchant_trans_id
                 /\ (r.error = Success /\ IsPrepare(i))
                    => /\ OwnResolved(i, "onPrepare")
                       /\ r.merchant_prepare_id = OwnResult(i, "onPrepare").value.prepare_id
                 /\ (r.error = Success /\ IsComplete(i)) => OwnResolved(i, "onSuccess")
                 /\ r.error = AlreadyPaid
                    => /\ OwnResolved(i, "checkPayment")
                       /\ OwnResult(i, "checkPayment").value = TRUE
                 /\ r.error_note = "Order not found"
                    => /\ OwnResolved(i, "checkOrder")
                       /\ ~OwnResult(i, "checkOrder").value.exists
                 /\ r.error > 0 => r.error = ParseInt(data[i].error).n

\* The invocation is suspended on an awaited collaborator call.
Suspended(i) == AwaitedFn(pc[i]) # "none"

\* C16: an invocation answers at most once, and one that is not suspended
\* on an awaited collaborator call (every such call it made has settled and
\* its continuation has run) has returned exactly one response, whether or
\* not the promises of onFail have settled.
C16_OneResponseOnceAwaitedSettle ==
    \A i \in DOMAIN pc :
       /\ Len(resp[i]) <= 1
       /\ (Started(i) /\ ~Suspended(i)) => Returned(i) /\ Len(resp[i]) = 1

(***************************************************************************)
(* C17  When Complete invokes onSuccess.                                   *)
(***************************************************************************)
\* C17: a Complete request invokes onSuccess exactly when its signature is
\* valid, checkOrder returned exists = true and the integer parsed from the
\* payload's error is not greater than 0 (negative, zero and non-numeric
\* included); once onSuccess has resolved the response is Success (0), and
\* a Success response is returned only after onSuccess has resolved.
C17_OnSuccessIffNoPositiveError ==
    \A i \in DOMAIN pc :
       IsComplete(i)
       => /\ Called(i, "onSuccess")
             => /\ DigestMatches(data[i])
                /\ OrderFound(i)
                /\ ~ProviderErrorPositive(data[i])
          /\ (/\ DigestMatches(data[i])
              /\ OrderFound(i) /\ Resumed(i, "checkOrder")
              /\ ~ProviderErrorPositive(data[i]))
             => Called(i, "onSuccess")
          /\ (Resolved(i, "onSuccess") /\ Resumed(i, "onSuccess"))
             => Returned(i) /\ Response(i).error = Success
          /\ (Returned(i) /\ Response(i).error = Success)
             => Resolved(i, "onSuccess")

\* A Complete carrying a negative provider error that was answered Success
\* after onSuccess resolved.
C17_Witness ==
    \E i \in DOMAIN pc :
       /\ IsComplete(i) /\ DigestMatches(data[i])
       /\ data[i].error = "-7"
       /\ OrderFound(i)
       /\ Resolved(i, "onSuccess")
       /\ Returned(i) /\ Response(i).error = Success

(***************************************************************************)
(* C18  No duplicate check on Complete.                                    *)
(***************************************************************************)
\* A Complete whose signature verified, whose order exists and whose error
\* field holds no positive integer, past the lookup of the order.
CompletePassedChecks(i) ==
    /\ IsComplete(i) /\ DigestMatches(data[i])
    /\ OrderFound(i) /\ Resumed(i, "checkOrder")
    /\ ~ProviderErrorPositive(data[i])

\* C18: a Complete never invokes checkPayment or onPrepare and a Prepare
\* never invokes onSuccess; every Complete invocation that passed its
\* checks invokes onSuccess exactly once, whatever the order's amount and
\* whatever the other invocations of the instance carried or did, and is
\* answered Success once its onSuccess has resolved.
C18_CompleteNotIdempotent ==
    \A i \in DOMAIN pc :
       /\ IsComplete(i) => ~Called(i, "checkPayment") /\ ~Called(i, "onPrepare")
       /\ IsPrepare(i) => ~Called(i, "onSuccess")
       /\ CompletePassedChecks(i)
          => /\ CallCount(i, "onSuccess") = 1
             /\ (Resolved(i, "onSuccess") /\ Resumed(i, "onSuccess"))
                => Returned(i) /\ Response(i).error = Success

\* Two Complete invocations with the same payload, for an order whose
\* amount is not the payload's: each called onSuccess and was answered
\* Success.
C18_Witness ==
    \E i, j \in DOMAIN pc :
       /\ i # j /\ data[i] = data[j]
       /\ CompletePassedChecks(i) /\ CompletePassedChecks(j)
       /\ ResultOf(i, "checkOrder").value.hasAmount
       /\ ResultOf(i, "checkOrder").value.amount # data[i].amount
       /\ CallCount(i, "onSuccess") = 1 /\ CallCount(j, "onSuccess") = 1
       /\ Returned(i) /\ Response(i).error = Success
       /\ Returned(j) /\ Response(j).error = Success

(***************************************************************************)
(* C19  The responses' identifiers and error codes.                        *)
(***************************************************************************)
\* The codes of the enum the handler answers with.
CoreCodes == {Success, SignFailed, InvalidAmount, ActionNotFound, AlreadyPaid, UserNotFound}

\* C19: every response returned carries the payload's click_trans_id and
\* merchant_trans_id; its error is Success (0), -1, -2, -3, -4, -5 or a
\* positive code, never TransactionNotFound (-6) or TransactionCanceled
\* (-7); a positive code is the integer parsed from the payload's error and
\* appears only in a response to Complete.
C19_ResponseEchoesIdsClosedCodes ==
    \A i \in DOMAIN pc :
       Returned(i)
       => /\ Response(i).click_trans_id = data[i].click_trans_id
          /\ Response(i).merchant_trans_id = data[i].merchant_trans_id
          /\ Response(i).error \in CoreCodes \/ Response(i).error > 0
          /\ Response(i).error \notin {TransactionNotFound, TransactionCanceled}
          /\ Response(i).error > 0
             => /\ IsComplete(i)
                /\ ProviderErrorPositive(data[i])
                /\ Response(i).error = ParseInt(data[i].error).n

\* A Complete answered with the provider's positive code, and the
\* identifiers of its payload.
C19_Witness ==
    \E i \in DOMAIN pc :
       /\ IsComplete(i) /\ data[i].click_trans_id = MaxTransId
       /\ Returned(i) /\ Response(i).error = 9
       /\ Response(i).click_trans_id = MaxTransId
       /\ Response(i).merchant_trans_id = data[i].merchant_trans_id

====
